---- MODULE Spec2Model ----
\* Model of pyranklib (src/src/pyranklib/pyranklib.py): lexicographic
\* rank / unrank codecs of combinatorial objects.
\*
\* Items of a universal set are the integers 1..MaxN, ordered by <, standing
\* for the totally ordered hashable items ('A' < 'B' < ...) of the library.
\* A Python value is a tagged record:
\*   None                      [tag |-> "None"]
\*   an int / a bool           [tag |-> "int", val |-> n], [tag |-> "bool", val |-> b]
\*   a raised exception        [tag |-> "raise", exc |-> name]
\*   an object                 [tag |-> "object", cls |-> class name,
\*                              U |-> _universal_set, c |-> _combinatoric]
\* The payload c of a Combination is a set, the payload of a Permutation is a
\* tuple.  Python indices are kept 0-based; TLA+ sequences are 1-based, so
\* s[i] of the source is s[i+1] here.
EXTENDS Integers, Sequences, FiniteSets, TLC

\* ---------------------------------------------------------------------------
\* Bounds of the model
\* ---------------------------------------------------------------------------
MaxN == 4        \* items are 1..MaxN
MaxK == 5        \* sizes k are 0..MaxK (k may exceed the universal set)
MaxRank == 24    \* ranks / indices are 0..MaxRank
MaxCmpN == 3     \* items of the operands of a comparison are 1..MaxCmpN
MaxTupleLen == 3 \* tuples handed to the multi-selection constructors have 0..MaxTupleLen items
MaxSum == 7      \* sums n of compositions and partitions are 0..MaxSum
MaxL == 3        \* minimal parts l handed to part are 1..MaxL
MaxNexts == 8    \* the count of the next() calls of an iterator stops at MaxNexts

Items == 1..MaxN
Universes == SUBSET Items
Ks == 0..MaxK
Ranks == 0..MaxRank

VARIABLES
    op,      \* name of the last library call
    args,    \* arguments of the call that produced `self` (or of a function call)
    self,    \* the object or iterator the caller holds (None when the call gave none)
    other,   \* right operand of the last comparison
    ret      \* value returned (or exception raised) by the last call

vars == <<op, args, self, other, ret>>

\* ---------------------------------------------------------------------------
\* Python values
\* ---------------------------------------------------------------------------
None == [tag |-> "None"]
PyInt(n) == [tag |-> "int", val |-> n]
PyBool(b) == [tag |-> "bool", val |-> b]
Raise(e) == [tag |-> "raise", exc |-> e]
Object(cls, U, c) == [tag |-> "object", cls |-> cls, U |-> U, c |-> c]

IsObject(v) == v.tag = "object"

\* an iterator object: its class, its cursor attribute (_combination,
\* _permuation, _composition or _multicombination: an object or None), and
\* the number of next() calls made on it so far, counted up to MaxNexts
Iterator(cls, cursor, nexts) ==
    [tag |-> "iterator", cls |-> cls, cursor |-> cursor, nexts |-> nexts]

IsIterator(v) == v.tag = "iterator"

\* the arguments of a call: the function or constructor called, the Python
\* type of the universal_set argument, the universal set, the size k, the
\* rank / index, and the payload handed in (a set or a tuple)
CallArgs(f, utype, U, k, index, c) ==
    [by |-> f, utype |-> utype, U |-> U, k |-> k, index |-> index, c |-> c]
NoArgs == CallArgs("none", "set", {}, 0, 0, {})

\* the arguments (n, k, index) of a call of an integer codec
IntArgs(f, n, k, index) ==
    [by |-> f, utype |-> "int", U |-> {}, k |-> k, index |-> index,
     c |-> {}, n |-> n]

\* the arguments (n, k, l) of a call of part
PartArgs(n, k, l) ==
    [by |-> "part", utype |-> "int", U |-> {}, k |-> k, index |-> 0,
     c |-> {}, n |-> n, l |-> l]

\* an integer composition / partition object: its payload and its _sum
IntObject(cls, c, total) == [tag |-> "object", cls |-> cls, c |-> c, sum |-> total]

\* ---------------------------------------------------------------------------
\* Library helpers: math.comb, math.perm, sorted, list.index, list.pop
\* ---------------------------------------------------------------------------
RECURSIVE comb(_, _)
comb(n, k) ==
    IF k > n THEN 0
    ELSE IF k = 0 THEN 1
    ELSE (n * comb(n - 1, k - 1)) \div k

RECURSIVE perm(_, _)
perm(n, k) ==
    IF k > n THEN 0
    ELSE IF k = 0 THEN 1
    ELSE n * perm(n - 1, k - 1)

RECURSIVE sorted(_)
sorted(S) ==
    IF S = {} THEN << >>
    ELSE LET m == CHOOSE x \in S : \A y \in S : x <= y
         IN <<m>> \o sorted(S \ {m})

\* s[from:] with a 0-based from
SliceFrom(s, from) == SubSeq(s, from + 1, Len(s))

\* s.index(x), 0-based, for x in s
list_index(s, x) == (CHOOSE i \in 1..Len(s) : s[i] = x /\ \A j \in 1..(i-1) : s[j] # x) - 1

\* s after s.pop(j), 0-based j
list_pop(s, j) == SubSeq(s, 1, j) \o SubSeq(s, j + 2, Len(s))

Range(s) == {s[i] : i \in 1..Len(s)}

\* ---------------------------------------------------------------------------
\* Combinatoric.__init__, Combination, Permutation
\* ---------------------------------------------------------------------------
Elements(cls, c) == IF cls = "Combination" THEN c ELSE Range(c)

Combinatoric_init(cls, universal_set, combinatoric) ==
    IF \E x \in Elements(cls, combinatoric) : x \notin universal_set
    THEN Raise("ValueError")
    ELSE Object(cls, universal_set, combinatoric)

Combination(universal_set, combination) ==
    Combinatoric_init("Combination", universal_set, combination)

Permutation(universal_set, combinatoric) ==
    Combinatoric_init("Permutation", universal_set, combinatoric)

\* len(self._combinatoric)
len(o) == IF o.cls = "Combination" THEN Cardinality(o.c) ELSE Len(o.c)

\* ---------------------------------------------------------------------------
\* unrank_combination
\* ---------------------------------------------------------------------------
\* uc_inner without `rank -= (index_rank - combs)`
RECURSIVE uc_inner_keeprank(_, _, _, _, _)
uc_inner_keeprank(st, k, i, index, index_rank) ==
    IF index >= Len(st.sliced) THEN st
    ELSE LET combs == comb(Len(SliceFrom(st.sliced, index + 1)), k - (i + 1))
             ir == index_rank + combs
         IN IF ir > st.rank
            THEN [combination |-> st.combination \cup {st.sliced[index + 1]},
                  sliced |-> SliceFrom(st.sliced, index + 1),
                  rank |-> st.rank]
            ELSE uc_inner_keeprank(st, k, i, index + 1, ir)

\* the inner for-loop over index, from `index` with the running index_rank;
\* st = [combination, sliced, rank]; the loop may end without a break
RECURSIVE uc_inner(_, _, _, _, _)
uc_inner(st, k, i, index, index_rank) ==
    IF index >= Len(st.sliced) THEN st
    ELSE LET combs == comb(Len(SliceFrom(st.sliced, index + 1)), k - (i + 1))
             ir == index_rank + combs
         IN IF ir > st.rank
            THEN [combination |-> st.combination \cup {st.sliced[index + 1]},
                  sliced |-> SliceFrom(st.sliced, index + 1),
                  rank |-> st.rank - (ir - combs)]
            ELSE uc_inner(st, k, i, index + 1, ir)

\* the outer for-loop: for i in range(k)
RECURSIVE uc_outer(_, _, _)
uc_outer(st, k, i) ==
    IF i >= k THEN st
    ELSE uc_outer(uc_inner(st, k, i, 0, 0), k, i + 1)

\* unrank_combination with the range check `rank > comb(...)`
unrank_combination_gt(universal_set, k, rank) ==
    IF rank > comb(Cardinality(universal_set), k)
    THEN None
    ELSE Combination(universal_set,
             uc_outer([combination |-> {}, sliced |-> sorted(universal_set),
                       rank |-> rank], k, 0).combination)

unrank_combination(universal_set, k, rank) ==
    IF rank >= comb(Cardinality(universal_set), k)
    THEN None
    ELSE Combination(universal_set,
             uc_outer([combination |-> {}, sliced |-> sorted(universal_set),
                       rank |-> rank], k, 0).combination)

\* ---------------------------------------------------------------------------
\* rank_combination, Combination.rank
\* ---------------------------------------------------------------------------
\* rc_inner counting over us[rank_index:] instead of us[rank_index+1:]
RECURSIVE rc_inner_offbyone(_, _, _, _)
rc_inner_offbyone(us, index, left, rank_index) ==
    IF rank_index >= index THEN 0
    ELSE comb(Len(SliceFrom(us, rank_index)), left)
         + rc_inner_offbyone(us, index, left, rank_index + 1)

\* for rank_index in range(index): rank += comb(len(us[rank_index+1:]), left)
RECURSIVE rc_inner(_, _, _, _)
rc_inner(us, index, left, rank_index) ==
    IF rank_index >= index THEN 0
    ELSE comb(Len(SliceFrom(us, rank_index + 1)), left)
         + rc_inner(us, index, left, rank_index + 1)

\* for i, item in enumerate(sorted(list(combination)))
RECURSIVE rc_outer(_, _, _, _, _)
rc_outer(us, items, size, i, rank) ==
    IF i >= Len(items) THEN rank
    ELSE LET index == list_index(us, items[i + 1])
         IN rc_outer(SliceFrom(us, index + 1), items, size, i + 1,
                     rank + rc_inner(us, index, size - (i + 1), 0))

rank_combination(universal_set, combination) ==
    rc_outer(sorted(universal_set), sorted(combination),
             Cardinality(combination), 0, 0)

Combination_rank(o) == rank_combination(o.U, o.c)

\* ---------------------------------------------------------------------------
\* unrank_permutation
\* ---------------------------------------------------------------------------
\* up_inner without `sliced_universal_set.pop(j)`
RECURSIVE up_inner_nopop(_, _, _, _, _)
up_inner_nopop(st, k, i, j, offset) ==
    IF j >= Len(st.sliced) THEN st
    ELSE LET block == perm(Len(st.sliced) - 1, k - (i + 1))
         IN IF offset + block > st.index
            THEN [permutation |-> Append(st.permutation, st.sliced[j + 1]),
                  sliced |-> st.sliced,
                  index |-> st.index - offset]
            ELSE up_inner_nopop(st, k, i, j + 1, offset + block)

\* the inner for-loop over enumerate(sliced_universal_set), from position j
\* with the running offset; st = [permutation, sliced, index]
RECURSIVE up_inner(_, _, _, _, _)
up_inner(st, k, i, j, offset) ==
    IF j >= Len(st.sliced) THEN st
    ELSE LET block == perm(Len(st.sliced) - 1, k - (i + 1))
         IN IF offset + block > st.index
            THEN [permutation |-> Append(st.permutation, st.sliced[j + 1]),
                  sliced |-> list_pop(st.sliced, j),
                  index |-> st.index - offset]
            ELSE up_inner(st, k, i, j + 1, offset + block)

RECURSIVE up_outer(_, _, _)
up_outer(st, k, i) ==
    IF i >= k THEN st
    ELSE up_outer(up_inner(st, k, i, 0, 0), k, i + 1)

unrank_permutation(universal_set, k, index) ==
    IF index >= perm(Cardinality(universal_set), k)
    THEN None
    ELSE Permutation(universal_set,
             up_outer([permutation |-> << >>, sliced |-> sorted(universal_set),
                       index |-> index], k, 0).permutation)

\* ---------------------------------------------------------------------------
\* rank_permutation
\* ---------------------------------------------------------------------------
\* The function is wrapped in lru_cache, which hashes its arguments, and its
\* loop body calls universal_set.index(item) and universal_set.remove(item).
\* utype is the Python type of the universal_set argument:
\*   "list"       unhashable: lru_cache raises TypeError before the body runs
\*   "frozenset"  has no .index: the first iteration raises AttributeError
\*   "tuple"      has .index but no .remove: the first iteration raises
\*                AttributeError after the rank contribution is added
\* With an empty permutation the loop body never runs and 0 is returned.
Hashable(utype) == utype \in {"frozenset", "tuple"}
HasIndex(utype) == utype \in {"tuple", "list"}
HasRemove(utype) == utype \in {"list"}

RECURSIVE rp_loop(_, _, _, _, _)
rp_loop(utype, us, permutation, i, rank) ==
    IF i >= Len(permutation) THEN PyInt(rank)
    ELSE IF ~HasIndex(utype) THEN Raise("AttributeError")
    ELSE LET item == permutation[i + 1]
             index == list_index(us, item)
             r == rank + index * perm(Len(us) - 1, Len(permutation) - 1 - i)
         IN IF ~HasRemove(utype) THEN Raise("AttributeError")
            ELSE rp_loop(utype, list_pop(us, index), permutation, i + 1, r)

rank_permutation(utype, universal_set, permutation) ==
    IF ~Hashable(utype) THEN Raise("TypeError")
    ELSE rp_loop(utype, sorted(universal_set), permutation, 0, 0)

\* Permutation.rank: rank_combination(tuple(U), frozenset(combinatoric))
Permutation_rank(o) == rank_combination(o.U, Range(o.c))

\* the abstract method rank(), dispatched on the class of the object
rank(o) == IF o.cls = "Combination" THEN Combination_rank(o) ELSE Permutation_rank(o)

\* ---------------------------------------------------------------------------
\* Combinatoric.successor (inherited unchanged by Combination and Permutation)
\* ---------------------------------------------------------------------------
\* successor unranking `rank` instead of `rank+1`
Combinatoric_successor_same(o) == unrank_combination(o.U, len(o), rank(o))

Combinatoric_successor(o) == unrank_combination(o.U, len(o), rank(o) + 1)

\* ---------------------------------------------------------------------------
\* ensure_comparable, __eq__, __lt__, and __gt__ (functools.total_ordering)
\* ---------------------------------------------------------------------------
\* isinstance(other, self.__class__): Combination and Permutation are sibling
\* classes without subclasses
isinstance(o, cls) == o.cls = cls

\* ensure_comparable without the check of the payload sizes
ensure_comparable_nolen(a, b, result) ==
    IF ~isinstance(b, a.cls) THEN Raise("NotImplementedError")
    ELSE IF a.U # b.U THEN Raise("NotImplementedError")
    ELSE PyBool(result)

ensure_comparable(a, b, result) ==
    IF ~isinstance(b, a.cls) THEN Raise("NotImplementedError")
    ELSE IF a.U # b.U THEN Raise("NotImplementedError")
    ELSE IF len(a) # len(b) THEN Raise("NotImplementedError")
    ELSE PyBool(result)

Combinatoric_eq(a, b) == ensure_comparable(a, b, rank(a) = rank(b))

Combinatoric_lt(a, b) == ensure_comparable(a, b, rank(a) < rank(b))

\* total_ordering's _gt_from_lt: not (self < other) and self != other, where
\* != is the default __ne__, the negation of __eq__
Combinatoric_gt(a, b) ==
    LET lt == Combinatoric_lt(a, b)
    IN IF lt.tag = "raise" THEN lt
       ELSE IF lt.val THEN PyBool(FALSE)
       ELSE LET eq == Combinatoric_eq(a, b)
            IN IF eq.tag = "raise" THEN eq ELSE PyBool(~eq.val)

compare(cmp, a, b) ==
    IF cmp = "==" THEN Combinatoric_eq(a, b)
    ELSE IF cmp = "<" THEN Combinatoric_lt(a, b)
    ELSE Combinatoric_gt(a, b)

\* ---------------------------------------------------------------------------
\* unrank_multipermutation, Multipermutation
\* ---------------------------------------------------------------------------
\* pow with pow(0, e) = 0 for every e, 0 included
pow_zero(b, e) == IF b = 0 THEN 0 ELSE IF e = 0 THEN 1 ELSE b ^ e

\* pow(b, e) for integers b >= 0, e >= 0 (pow(0, 0) is 1)
RECURSIVE pow(_, _)
pow(b, e) == IF e = 0 THEN 1 ELSE b * pow(b, e - 1)

\* Multipermutation.__init__: _universal_set is the sorted list of the items
Multipermutation(universal_set, permutation) ==
    IF \E x \in Range(permutation) : x \notin universal_set
    THEN Raise("ValueError")
    ELSE Object("Multipermutation", sorted(universal_set), permutation)

\* ump_inner without `index -= offset`
RECURSIVE ump_inner_keepindex(_, _, _, _, _)
ump_inner_keepindex(st, k, i, j, offset) ==
    IF j >= Len(st.sorted_items) THEN st
    ELSE LET block == pow(Len(st.sorted_items), k - (i + 1))
         IN IF offset + block > st.index
            THEN [st EXCEPT !.permutation = Append(@, st.sorted_items[j + 1])]
            ELSE ump_inner_keepindex(st, k, i, j + 1, offset + block)

\* the inner for-loop over enumerate(sorted_items), from position j with the
\* running offset; st = [permutation, sorted_items, index]
RECURSIVE ump_inner(_, _, _, _, _)
ump_inner(st, k, i, j, offset) ==
    IF j >= Len(st.sorted_items) THEN st
    ELSE LET block == pow(Len(st.sorted_items), k - (i + 1))
         IN IF offset + block > st.index
            THEN [st EXCEPT !.index = @ - offset,
                            !.permutation = Append(@, st.sorted_items[j + 1])]
            ELSE ump_inner(st, k, i, j + 1, offset + block)

RECURSIVE ump_outer(_, _, _)
ump_outer(st, k, i) ==
    IF i >= k THEN st
    ELSE ump_outer(ump_inner(st, k, i, 0, 0), k, i + 1)

unrank_multipermutation(universal_set, k, index) ==
    IF index >= pow(Cardinality(universal_set), k)
    THEN None
    ELSE Multipermutation(universal_set,
             ump_outer([permutation |-> << >>,
                        sorted_items |-> sorted(universal_set),
                        index |-> index], k, 0).permutation)

\* Multipermutation.rank with the place value pow(n, len - i)
RECURSIVE mp_rank_loop_shifted(_, _, _)
mp_rank_loop_shifted(o, i, r) ==
    IF i >= Len(o.c) THEN r
    ELSE mp_rank_loop_shifted(o, i + 1,
             r + list_index(o.U, o.c[i + 1]) * pow(Len(o.U), Len(o.c) - i))

\* for i, item in enumerate(self._permutation)
RECURSIVE mp_rank_loop(_, _, _)
mp_rank_loop(o, i, r) ==
    IF i >= Len(o.c) THEN r
    ELSE mp_rank_loop(o, i + 1,
             r + list_index(o.U, o.c[i + 1]) * pow(Len(o.U), Len(o.c) - (i + 1)))

Multipermutation_rank(o) == mp_rank_loop(o, 0, 0)

\* ---------------------------------------------------------------------------
\* unrank_multicombination, MultiCombination
\* ---------------------------------------------------------------------------
\* sorted(list(s)) of a tuple s, repeated items kept
RECURSIVE sorted_list(_)
sorted_list(s) ==
    IF Len(s) = 0 THEN << >>
    ELSE LET m == CHOOSE x \in Range(s) : \A y \in Range(s) : x <= y
         IN <<m>> \o sorted_list(list_pop(s, list_index(s, m)))

\* MultiCombination.__init__: _universal_set is the sorted list of the items
MultiCombination(universal_set, multicombination) ==
    IF \E x \in Range(multicombination) : x \notin universal_set
    THEN Raise("ValueError")
    ELSE Object("MultiCombination", sorted(universal_set), multicombination)

\* the inner for-loop over index: every index whose index_rank exceeds the rank rnk
\* appends universal_set[index-1]; there is no break and the rank is not reduced
\* (the items appended from index on, in order)
RECURSIVE umc_inner(_, _, _, _, _)
umc_inner(us, k, rnk, i, index) ==
    IF index >= Len(us) THEN << >>
    ELSE LET index_rank == index * comb((Len(us) + k - 1) - 1, k - (i + 1))
         IN (IF index_rank > rnk THEN <<us[index]>> ELSE << >>)
                \o umc_inner(us, k, rnk, i, index + 1)

\* the outer for-loop `for i in range(k)`: the items appended from i on
RECURSIVE umc_outer(_, _, _, _)
umc_outer(us, k, rnk, i) ==
    IF i >= k THEN << >>
    ELSE umc_inner(us, k, rnk, i, 0) \o umc_outer(us, k, rnk, i + 1)

\* math.comb raises ValueError on a negative argument: comb(n + k - 1, k)
\* with an empty universal set and k = 0
unrank_multicombination(universal_set, k, rnk) ==
    IF Cardinality(universal_set) + k - 1 < 0 THEN Raise("ValueError")
    ELSE IF rnk > comb(Cardinality(universal_set) + k - 1, k) THEN None
    ELSE MultiCombination(universal_set,
             umc_outer(sorted(universal_set), k, rnk, 0))

\* for i, item in enumerate(sorted(list(self._multicombination)))
RECURSIVE mc_rank_loop(_, _, _, _)
mc_rank_loop(o, items, i, r) ==
    IF i >= Len(items) THEN r
    ELSE mc_rank_loop(o, items, i + 1,
             r + list_index(o.U, items[i + 1])
                 * comb(Len(o.U) - 1, Len(o.c) - (i + 1)))

MultiCombination_rank(o) == mc_rank_loop(o, sorted_list(o.c), 0, 0)

\* ---------------------------------------------------------------------------
\* unrank_sized_integer_composition, SizedIntegerComposition
\* ---------------------------------------------------------------------------
\* sum(s) of a tuple of integers
RECURSIVE sum(_)
sum(s) == IF Len(s) = 0 THEN 0 ELSE s[1] + sum(SubSeq(s, 2, Len(s)))

SizedIntegerComposition(composition) ==
    IntObject("SizedIntegerComposition", composition, sum(composition))

\* the inner for-loop `for j in range(1, n-1)`, from j with the running
\* offset; st = [composition, index, exc]; math.comb raises ValueError on a
\* negative argument; the loop may end without a break
RECURSIVE usc_inner(_, _, _, _, _, _)
usc_inner(st, n, k, i, j, offset) ==
    IF j >= n - 1 THEN st
    ELSE LET a == n - (sum(st.composition) + j) - 1
         IN IF a < 0 THEN [st EXCEPT !.exc = "ValueError"]
            ELSE IF offset + comb(a, k - i - 2) > st.index
            THEN [st EXCEPT !.index = @ - offset,
                            !.composition = Append(@, j)]
            ELSE usc_inner(st, n, k, i, j + 1, offset + comb(a, k - i - 2))

\* the outer for-loop `for i in range(k-1)`
RECURSIVE usc_outer(_, _, _, _)
usc_outer(st, n, k, i) ==
    IF i >= k - 1 \/ st.exc # "none" THEN st
    ELSE usc_outer(usc_inner(st, n, k, i, 1, 0), n, k, i + 1)

unrank_sized_integer_composition(n, k, index) ==
    IF n - 1 < 0 \/ k - 1 < 0 THEN Raise("ValueError")
    ELSE IF index >= comb(n - 1, k - 1) THEN None
    ELSE LET st == usc_outer([composition |-> << >>, index |-> index,
                              exc |-> "none"], n, k, 0)
         IN IF st.exc # "none" THEN Raise(st.exc)
            ELSE SizedIntegerComposition(
                     Append(st.composition, n - sum(st.composition)))

\* the inner sum over range(1, c[i] + 1) instead of range(1, c[i])
RECURSIVE sic_rank_inner_inclusive(_, _, _, _, _)
sic_rank_inner_inclusive(o, k, i, j, res) ==
    IF j > o.c[i + 1] \/ res.exc # "none" THEN res
    ELSE LET a == o.sum - (sum(SubSeq(o.c, 1, i)) + j) - 1
         IN IF a < 0 THEN [res EXCEPT !.exc = "ValueError"]
            ELSE sic_rank_inner_inclusive(o, k, i, j + 1,
                     [res EXCEPT !.val = @ + comb(a, k - i - 2)])

\* sum(comb(self._sum - (sum(c[:i]) + j) - 1, k - i - 2) for j in range(1, c[i])),
\* from j; res = [val, exc]
RECURSIVE sic_rank_inner(_, _, _, _, _)
sic_rank_inner(o, k, i, j, res) ==
    IF j >= o.c[i + 1] \/ res.exc # "none" THEN res
    ELSE LET a == o.sum - (sum(SubSeq(o.c, 1, i)) + j) - 1
         IN IF a < 0 THEN [res EXCEPT !.exc = "ValueError"]
            ELSE sic_rank_inner(o, k, i, j + 1,
                     [res EXCEPT !.val = @ + comb(a, k - i - 2)])

\* for i in range(k - 1)
RECURSIVE sic_rank_outer(_, _, _, _)
sic_rank_outer(o, k, i, res) ==
    IF i >= k - 1 \/ res.exc # "none" THEN res
    ELSE sic_rank_outer(o, k, i + 1, sic_rank_inner(o, k, i, 1, res))

SizedIntegerComposition_rank(o) ==
    LET res == sic_rank_outer(o, Len(o.c), 0, [val |-> 0, exc |-> "none"])
    IN IF res.exc # "none" THEN Raise(res.exc) ELSE PyInt(res.val)

\* ---------------------------------------------------------------------------
\* part, unrank_sized_integer_partition, SizedIntegerPartition
\* ---------------------------------------------------------------------------
\* part with the first test `n <= k` instead of `n < k`
RECURSIVE part_strict(_, _, _)
part_strict(n, k, l) ==
    IF n <= k \/ k <= 0 THEN 0
    ELSE IF k = 1 THEN 1
    ELSE part_strict(n - l, k - 1, l) + part_strict(n - l * k, k, 1)

RECURSIVE part(_, _, _)
part(n, k, l) ==
    IF n < k \/ k <= 0 THEN 0
    ELSE IF k = n \/ k = 1 THEN 1
    ELSE part(n - l, k - 1, l) + part(n - l * k, k, 1)

\* sum(partition) of a set of integers
RECURSIVE set_sum(_)
set_sum(S) ==
    IF S = {} THEN 0
    ELSE LET x == CHOOSE y \in S : TRUE IN x + set_sum(S \ {x})

\* the payload is a Python set: a part added twice is held once, and _sum is
\* the sum of the set
SizedIntegerPartition(partition) ==
    IntObject("SizedIntegerPartition", partition, set_sum(partition))

\* the inner for-loop `for j in range(start_range, n-1)`, from j;
\* st = [partition, index, start_range, exc]; `index // part_count` raises
\* ZeroDivisionError when part_count is 0; the loop may end without a break
RECURSIVE usp_inner(_, _, _, _, _)
usp_inner(st, n, k, i, j) ==
    IF j >= n - 1 THEN st
    ELSE LET part_count == part(n - (set_sum(st.partition) + j), k - i - 1, j)
         IN IF part_count = 0 THEN [st EXCEPT !.exc = "ZeroDivisionError"]
            ELSE IF st.index \div part_count >= 1
            THEN usp_inner([st EXCEPT !.index = @ - part_count], n, k, i, j + 1)
            ELSE [st EXCEPT !.partition = @ \cup {j}, !.start_range = j]

\* the outer for-loop `for i in range(k-1)`
RECURSIVE usp_outer(_, _, _, _)
usp_outer(st, n, k, i) ==
    IF i >= k - 1 \/ st.exc # "none" THEN st
    ELSE usp_outer(usp_inner(st, n, k, i, st.start_range), n, k, i + 1)

unrank_sized_integer_partition(n, k, index) ==
    IF index >= part(n, k, 1) THEN None
    ELSE LET st == usp_outer([partition |-> {}, index |-> index,
                              start_range |-> 1, exc |-> "none"], n, k, 0)
         IN IF st.exc # "none" THEN Raise(st.exc)
            ELSE SizedIntegerPartition(
                     st.partition \cup {n - set_sum(st.partition)})

\* sum(part(self._sum - (sum(sorted_partition[:i]) + j), k - i - 1, j)
\*     for j in range(start_range, sorted_partition[i])), from j
RECURSIVE sip_rank_inner(_, _, _, _, _)
sip_rank_inner(o, sorted_partition, k, i, j) ==
    IF j >= sorted_partition[i + 1] THEN 0
    ELSE part(o.sum - (sum(SubSeq(sorted_partition, 1, i)) + j), k - i - 1, j)
         + sip_rank_inner(o, sorted_partition, k, i, j + 1)

\* for i in range(k - 1), with start_range the previous part
RECURSIVE sip_rank_outer(_, _, _, _, _)
sip_rank_outer(o, sorted_partition, k, i, start_range) ==
    IF i >= k - 1 THEN 0
    ELSE sip_rank_inner(o, sorted_partition, k, i, start_range)
         + sip_rank_outer(o, sorted_partition, k, i + 1, sorted_partition[i + 1])

SizedIntegerPartition_rank(o) ==
    PyInt(sip_rank_outer(o, sorted(o.c), Cardinality(o.c), 0, 1))

\* ---------------------------------------------------------------------------
\* Method dispatch on the class of the object held
\* ---------------------------------------------------------------------------
\* o.rank()
method_rank(o) ==
    IF o.cls = "Multipermutation" THEN PyInt(Multipermutation_rank(o))
    ELSE IF o.cls = "MultiCombination" THEN PyInt(MultiCombination_rank(o))
    ELSE IF o.cls = "SizedIntegerComposition" THEN SizedIntegerComposition_rank(o)
    ELSE IF o.cls = "SizedIntegerPartition" THEN SizedIntegerPartition_rank(o)
    ELSE PyInt(rank(o))

\* the unrank function of the codec of o, called with the parameters of o
\* (its universal set and its size) and the rank r
unrank_like(o, r) ==
    IF o.cls = "Combination" THEN unrank_combination(o.U, len(o), r)
    ELSE IF o.cls = "Permutation" THEN unrank_permutation(o.U, len(o), r)
    ELSE IF o.cls = "Multipermutation"
         THEN unrank_multipermutation(Range(o.U), Len(o.c), r)
    ELSE IF o.cls = "MultiCombination"
         THEN unrank_multicombination(Range(o.U), Len(o.c), r)
    ELSE IF o.cls = "SizedIntegerComposition"
         THEN unrank_sized_integer_composition(o.sum, Len(o.c), r)
    ELSE unrank_sized_integer_partition(o.sum, Cardinality(o.c), r)

\* o.successor(): Combinatoric.successor for Combination and Permutation; the
\* four other classes unrank rank() + 1 with their own unrank function; an
\* exception raised by rank() propagates
method_successor(o) ==
    IF o.cls \in {"Combination", "Permutation"} THEN Combinatoric_successor(o)
    ELSE LET r == method_rank(o)
         IN IF r.tag = "raise" THEN r ELSE unrank_like(o, r.val + 1)

\* len() of the payload of an object
payload_len(o) ==
    IF o.cls \in {"Combination", "SizedIntegerPartition"}
    THEN Cardinality(o.c) ELSE Len(o.c)

\* ---------------------------------------------------------------------------
\* The iterators: CombinationIterator, PermuationIterator,
\* SizedIntegerCompositionIterator, MultiPermuationIterator,
\* MultiCombinationIterator
\* ---------------------------------------------------------------------------
\* __init__: the cursor is what the unrank function returned; an exception it
\* raised leaves no iterator
Iterator_init(cls, unranked) ==
    IF unranked.tag = "raise" THEN unranked ELSE Iterator(cls, unranked, 0)

CombinationIterator(universal_set, k, initial_index) ==
    Iterator_init("CombinationIterator",
                  unrank_combination(universal_set, k, initial_index))

PermuationIterator(universal_set, k, initial_index) ==
    Iterator_init("PermuationIterator",
                  unrank_permutation(universal_set, k, initial_index))

SizedIntegerCompositionIterator(n, k, initial_index) ==
    Iterator_init("SizedIntegerCompositionIterator",
                  unrank_sized_integer_composition(n, k, initial_index))

\* the constructor calls unrank_permutation
MultiPermuationIterator(universal_set, k, initial_index) ==
    Iterator_init("MultiPermuationIterator",
                  unrank_permutation(universal_set, k, initial_index))

MultiCombinationIterator(universal_set, k, initial_index) ==
    Iterator_init("MultiCombinationIterator",
                  unrank_multicombination(universal_set, k, initial_index))

\* StopIteration raised by the first next() call only
Iterator_stop_once(it, count) ==
    [it |-> [it EXCEPT !.nexts = count],
     ret |-> IF it.nexts = 0 THEN Raise("StopIteration") ELSE None]

\* the else branch of __next__: `raise StopIteration`, the cursor stays None
Iterator_stop(it, count) ==
    [it |-> [it EXCEPT !.nexts = count], ret |-> Raise("StopIteration")]

\* __next__ without the advance of the cursor
Iterator_next_stay(it) ==
    LET current == it.cursor
        count == IF it.nexts < MaxNexts THEN it.nexts + 1 ELSE MaxNexts
    IN IF IsObject(current)
       THEN [it |-> [it EXCEPT !.nexts = count], ret |-> current]
       ELSE Iterator_stop(it, count)

\* __next__ (the same code in the five classes): the pair of the iterator
\* after the call and what the call returned or raised; an exception raised
\* by successor() leaves the cursor as it was
Iterator_next(it) ==
    LET current == it.cursor
        count == IF it.nexts < MaxNexts THEN it.nexts + 1 ELSE MaxNexts
    IN IF IsObject(current)
       THEN LET successor == method_successor(current)
            IN IF successor.tag = "raise"
               THEN [it |-> [it EXCEPT !.nexts = count], ret |-> successor]
               ELSE [it |-> [it EXCEPT !.cursor = successor, !.nexts = count],
                     ret |-> current]
       ELSE Iterator_stop(it, count)

\* ---------------------------------------------------------------------------
\* Inputs of the calls
\* ---------------------------------------------------------------------------
RECURSIVE KPerms(_, _)
\* all k-tuples of distinct elements of U
KPerms(U, k) ==
    IF k = 0 THEN {<< >>}
    ELSE UNION {{<<x>> \o p : p \in KPerms(U \ {x}, k - 1)} : x \in U}

\* all k-subsets of U
KSubsets(U, k) == {T \in SUBSET U : Cardinality(T) = k}

\* the tuples of distinct items handed to the Permutation constructor
PermTuples(I) == UNION {KPerms(I, k) : k \in 0..Cardinality(I)}

RECURSIVE Tuples(_, _)
\* all k-tuples over U, repetitions allowed
Tuples(U, k) ==
    IF k = 0 THEN {<< >>}
    ELSE {Append(t, x) : t \in Tuples(U, k - 1), x \in U}

\* the tuples handed to the Multipermutation and MultiCombination constructors
MultiTuples(U) == UNION {Tuples(U, k) : k \in 0..MaxTupleLen}

\* the k-tuples of strictly positive integers whose sum is n
RECURSIVE Compositions(_, _)
Compositions(n, k) ==
    IF k = 0 THEN (IF n = 0 THEN {<< >>} ELSE {})
    ELSE UNION {{<<p>> \o t : t \in Compositions(n - p, k - 1)} : p \in 1..n}

UTypes == {"frozenset", "tuple", "list"}

\* operands of a comparison: Combination and Permutation objects over the
\* universal sets within 1..MaxCmpN, and a value of another class
CmpItems == 1..MaxCmpN
CmpCombinatorics ==
    {Object("Combination", U, S) : U \in SUBSET CmpItems, S \in SUBSET CmpItems}
    \cup {Object("Permutation", U, p) : U \in SUBSET CmpItems, p \in PermTuples(CmpItems)}
CmpValid == {o \in CmpCombinatorics : Elements(o.cls, o.c) \subseteq o.U}
Builtin == Object("set", {}, {})
CmpOperators == {"==", "<", ">"}

\* ---------------------------------------------------------------------------
\* The caller: one action per library call.  A caller starts idle, makes one
\* call of a function or constructor, and then calls methods of the object it
\* got; every function is pure, so what an earlier caller did changes nothing.
\* ---------------------------------------------------------------------------
Init ==
    /\ op = "idle"
    /\ args = NoArgs
    /\ self = None
    /\ other = None
    /\ ret = None

Held(v) == IF IsObject(v) \/ IsIterator(v) THEN v ELSE None

Call_unrank_combination ==
    /\ op = "idle"
    /\ \E U \in Universes, k \in Ks, r \in Ranks :
        /\ op' = "unrank_combination"
        /\ args' = CallArgs("unrank_combination", "set", U, k, r, {})
        /\ ret' = unrank_combination(U, k, r)
        /\ self' = Held(unrank_combination(U, k, r))
        /\ other' = None

Call_unrank_permutation ==
    /\ op = "idle"
    /\ \E U \in Universes, k \in Ks, i \in Ranks :
        /\ op' = "unrank_permutation"
        /\ args' = CallArgs("unrank_permutation", "set", U, k, i, {})
        /\ ret' = unrank_permutation(U, k, i)
        /\ self' = Held(unrank_permutation(U, k, i))
        /\ other' = None

Call_rank_combination ==
    /\ op = "idle"
    /\ \E U \in Universes : \E S \in SUBSET U :
        /\ op' = "rank_combination"
        /\ args' = CallArgs("rank_combination", "frozenset", U, Cardinality(S), 0, S)
        /\ ret' = PyInt(rank_combination(U, S))
        /\ self' = None
        /\ other' = None

Call_rank_permutation ==
    /\ op = "idle"
    /\ \E t \in UTypes, U \in Universes : \E p \in PermTuples(U) :
        /\ op' = "rank_permutation"
        /\ args' = CallArgs("rank_permutation", t, U, Len(p), 0, p)
        /\ ret' = rank_permutation(t, U, p)
        /\ self' = None
        /\ other' = None

New_Combination ==
    /\ op = "idle"
    /\ \E U \in Universes, S \in Universes :
        /\ op' = "Combination"
        /\ args' = CallArgs("Combination", "set", U, Cardinality(S), 0, S)
        /\ ret' = Combination(U, S)
        /\ self' = Held(Combination(U, S))
        /\ other' = None

New_Permutation ==
    /\ op = "idle"
    /\ \E U \in Universes, p \in PermTuples(Items) :
        /\ op' = "Permutation"
        /\ args' = CallArgs("Permutation", "set", U, Len(p), 0, p)
        /\ ret' = Permutation(U, p)
        /\ self' = Held(Permutation(U, p))
        /\ other' = None

\* self.rank() on the object held
Call_rank ==
    /\ IsObject(self)
    /\ op # "rank"
    /\ op' = "rank"
    /\ ret' = method_rank(self)
    /\ other' = None
    /\ UNCHANGED <<args, self>>

\* self.successor() on the object held
Call_successor ==
    /\ IsObject(self)
    /\ op' = "successor"
    /\ ret' = method_successor(self)
    /\ other' = None
    /\ UNCHANGED <<args, self>>

\* a == b, a < b, a > b with a Combination or Permutation on the left
Call_compare ==
    /\ op = "idle"
    /\ \E cmp \in CmpOperators, a \in CmpValid, b \in CmpValid \cup {Builtin} :
        /\ op' = cmp
        /\ args' = NoArgs
        /\ self' = a
        /\ other' = b
        /\ ret' = compare(cmp, a, b)

Call_unrank_multipermutation ==
    /\ op = "idle"
    /\ \E U \in Universes, k \in Ks, i \in Ranks :
        /\ op' = "unrank_multipermutation"
        /\ args' = CallArgs("unrank_multipermutation", "set", U, k, i, {})
        /\ ret' = unrank_multipermutation(U, k, i)
        /\ self' = Held(unrank_multipermutation(U, k, i))
        /\ other' = None

New_Multipermutation ==
    /\ op = "idle"
    /\ \E U \in Universes : \E t \in MultiTuples(U) :
        /\ op' = "Multipermutation"
        /\ args' = CallArgs("Multipermutation", "set", U, Len(t), 0, t)
        /\ ret' = Multipermutation(U, t)
        /\ self' = Held(Multipermutation(U, t))
        /\ other' = None

\* unrank called with the parameters of the object held and the rank that
\* self.rank() has just returned
Call_unrank_rank ==
    /\ op = "rank"
    /\ IsObject(self)
    /\ ret.tag = "int"
    /\ op' = "unrank_rank"
    /\ ret' = unrank_like(self, ret.val)
    /\ other' = None
    /\ UNCHANGED <<args, self>>

Call_unrank_multicombination ==
    /\ op = "idle"
    /\ \E U \in Universes, k \in Ks, r \in Ranks :
        /\ op' = "unrank_multicombination"
        /\ args' = CallArgs("unrank_multicombination", "set", U, k, r, {})
        /\ ret' = unrank_multicombination(U, k, r)
        /\ self' = Held(unrank_multicombination(U, k, r))
        /\ other' = None

New_MultiCombination ==
    /\ op = "idle"
    /\ \E U \in Universes : \E t \in MultiTuples(U) :
        /\ op' = "MultiCombination"
        /\ args' = CallArgs("MultiCombination", "set", U, Len(t), 0, t)
        /\ ret' = MultiCombination(U, t)
        /\ self' = Held(MultiCombination(U, t))
        /\ other' = None

Call_unrank_sized_integer_composition ==
    /\ op = "idle"
    /\ \E n \in 0..MaxSum, k \in Ks, i \in Ranks :
        /\ op' = "unrank_sized_integer_composition"
        /\ args' = IntArgs("unrank_sized_integer_composition", n, k, i)
        /\ ret' = unrank_sized_integer_composition(n, k, i)
        /\ self' = Held(unrank_sized_integer_composition(n, k, i))
        /\ other' = None

Call_part ==
    /\ op = "idle"
    /\ \E n \in 0..MaxSum, k \in Ks, l \in 1..MaxL :
        /\ op' = "part"
        /\ args' = PartArgs(n, k, l)
        /\ ret' = PyInt(part(n, k, l))
        /\ UNCHANGED <<self, other>>

Call_unrank_sized_integer_partition ==
    /\ op = "idle"
    /\ \E n \in 0..MaxSum, k \in Ks, i \in Ranks :
        /\ op' = "unrank_sized_integer_partition"
        /\ args' = IntArgs("unrank_sized_integer_partition", n, k, i)
        /\ ret' = unrank_sized_integer_partition(n, k, i)
        /\ self' = Held(unrank_sized_integer_partition(n, k, i))
        /\ other' = None

New_CombinationIterator ==
    /\ op = "idle"
    /\ \E U \in Universes, k \in Ks, r \in Ranks :
        /\ op' = "CombinationIterator"
        /\ args' = CallArgs("CombinationIterator", "set", U, k, r, {})
        /\ ret' = CombinationIterator(U, k, r)
        /\ self' = Held(CombinationIterator(U, k, r))
        /\ other' = None

New_PermuationIterator ==
    /\ op = "idle"
    /\ \E U \in Universes, k \in Ks, r \in Ranks :
        /\ op' = "PermuationIterator"
        /\ args' = CallArgs("PermuationIterator", "set", U, k, r, {})
        /\ ret' = PermuationIterator(U, k, r)
        /\ self' = Held(PermuationIterator(U, k, r))
        /\ other' = None

New_MultiPermuationIterator ==
    /\ op = "idle"
    /\ \E U \in Universes, k \in Ks, r \in Ranks :
        /\ op' = "MultiPermuationIterator"
        /\ args' = CallArgs("MultiPermuationIterator", "set", U, k, r, {})
        /\ ret' = MultiPermuationIterator(U, k, r)
        /\ self' = Held(MultiPermuationIterator(U, k, r))
        /\ other' = None

New_MultiCombinationIterator ==
    /\ op = "idle"
    /\ \E U \in Universes, k \in Ks, r \in Ranks :
        /\ op' = "MultiCombinationIterator"
        /\ args' = CallArgs("MultiCombinationIterator", "set", U, k, r, {})
        /\ ret' = MultiCombinationIterator(U, k, r)
        /\ self' = Held(MultiCombinationIterator(U, k, r))
        /\ other' = None

New_SizedIntegerCompositionIterator ==
    /\ op = "idle"
    /\ \E n \in 0..MaxSum, k \in Ks, r \in Ranks :
        /\ op' = "SizedIntegerCompositionIterator"
        /\ args' = IntArgs("SizedIntegerCompositionIterator", n, k, r)
        /\ ret' = SizedIntegerCompositionIterator(n, k, r)
        /\ self' = Held(SizedIntegerCompositionIterator(n, k, r))
        /\ other' = None

\* next(self) on the iterator held; a cursor whose payload has outgrown the
\* sizes 0..MaxK is not stepped
Call_next ==
    /\ IsIterator(self)
    /\ IsObject(self.cursor) => payload_len(self.cursor) <= MaxK
    /\ op' = "next"
    /\ self' = Iterator_next(self).it
    /\ ret' = Iterator_next(self).ret
    /\ other' = None
    /\ UNCHANGED args

\* SizedIntegerComposition(c) for a tuple c of positive integers
New_SizedIntegerComposition ==
    /\ op = "idle"
    /\ \E n \in 0..MaxSum, k \in Ks : \E t \in Compositions(n, k) :
        /\ op' = "SizedIntegerComposition"
        /\ args' = [IntArgs("SizedIntegerComposition", n, k, 0) EXCEPT !.c = t]
        /\ ret' = SizedIntegerComposition(t)
        /\ self' = Held(SizedIntegerComposition(t))
        /\ other' = None

Next ==
    \/ Call_unrank_combination
    \/ Call_unrank_permutation
    \/ Call_rank_combination
    \/ Call_rank_permutation
    \/ New_Combination
    \/ New_Permutation
    \/ Call_rank
    \/ Call_successor
    \/ Call_compare
    \/ Call_unrank_multipermutation
    \/ New_Multipermutation
    \/ Call_unrank_rank
    \/ Call_unrank_multicombination
    \/ New_MultiCombination
    \/ Call_unrank_sized_integer_composition
    \/ Call_part
    \/ Call_unrank_sized_integer_partition
    \/ New_CombinationIterator
    \/ New_PermuationIterator
    \/ New_MultiPermuationIterator
    \/ New_MultiCombinationIterator
    \/ New_SizedIntegerCompositionIterator
    \/ Call_next
    \/ New_SizedIntegerComposition

Spec == Init /\ [][Next]_vars

\* ---------------------------------------------------------------------------
\* Reference enumeration in lexicographic order
\* ---------------------------------------------------------------------------
\* s precedes t, for tuples of the same length
LexLess(s, t) ==
    \E i \in 1..Len(s) : s[i] < t[i] /\ \A j \in 1..(i - 1) : s[j] = t[j]

\* number of k-subsets / k-permutations of U
CountComb(U, k) == Cardinality(KSubsets(U, k))
CountPerm(U, k) == Cardinality(KPerms(U, k))

\* zero-based position of the subset S among the |S|-subsets of U, ordered by
\* their sorted element sequences
LexPosComb(U, S) ==
    Cardinality({T \in KSubsets(U, Cardinality(S)) : LexLess(sorted(T), sorted(S))})

\* zero-based position of the tuple p among the Len(p)-permutations of U
LexPosPerm(U, p) ==
    Cardinality({q \in KPerms(U, Len(p)) : LexLess(q, p)})

\* ---------------------------------------------------------------------------
\* Claims
\* ---------------------------------------------------------------------------

C2_RankCombinationIsLexPosition ==
    op = "rank_combination"
        => /\ ret = PyInt(LexPosComb(args.U, args.c))
           /\ ret.val >= 0
           /\ ret.val < CountComb(args.U, args.k)

C2_Witness ==
    /\ op = "rank_combination"
    /\ args.U = 1..4
    /\ args.c = {2, 3}
    /\ ret = PyInt(3)

\* C3: unrank_combination(U, k, rank) returns None if and only if
\* rank >= C(|U|, k); so for every rank when k > |U|, and for every rank >= 1
\* when k = 0.
C3_UnrankCombinationNoneIffOutOfRange ==
    op = "unrank_combination"
        => /\ (ret = None) <=> (args.index >= CountComb(args.U, args.k))
           /\ (args.k > Cardinality(args.U) => ret = None)
           /\ (args.k = 0 /\ args.index >= 1 => ret = None)

C3_Witness ==
    /\ op = "unrank_combination"
    /\ args.U = 1..4
    /\ args.k = 2
    /\ args.index = 6
    /\ ret = None

\* C4: Combination.successor() of a Combination over U of size k and rank r is
\* the Combination over U of size k and rank r + 1 when r < C(n,k) - 1, and
\* None exactly when r = C(n,k) - 1.
C4_CombinationSuccessor ==
    (op = "successor" /\ self.cls = "Combination")
        => LET r == Combination_rank(self)
               cnt == CountComb(self.U, len(self))
           IN /\ (r < cnt - 1
                    => /\ IsObject(ret)
                       /\ ret.cls = "Combination"
                       /\ ret.U = self.U
                       /\ len(ret) = len(self)
                       /\ Combination_rank(ret) = r + 1)
              /\ (ret = None) <=> (r = cnt - 1)

C4_Witness ==
    /\ op = "successor"
    /\ self.cls = "Combination"
    /\ self.U = 1..4
    /\ self.c = {1, 4}
    /\ IsObject(ret)
    /\ ret.cls = "Combination"
    /\ ret.U = 1..4
    /\ ret.c = {2, 3}

C6_PermutationRoundTrip ==
    (op = "rank" /\ args.by = "unrank_permutation") => ret = PyInt(args.index)

\* C7: rank_permutation(universal_set, permutation), called with a frozenset
\* and a tuple of distinct elements of it, returns without raising the
\* zero-based lexicographic rank of the tuple.
C7_RankPermutationReturnsLexRank ==
    (op = "rank_permutation" /\ args.utype = "frozenset")
        => ret = PyInt(LexPosPerm(args.U, args.c))

\* C8: Permutation.successor() of a Permutation over U of size k at
\* lexicographic position r is the Permutation over U at position r + 1 when
\* r < P(n,k) - 1, and None exactly when r = P(n,k) - 1.
C8_PermutationSuccessor ==
    (op = "successor" /\ self.cls = "Permutation"
        /\ self.c \in KPerms(self.U, Len(self.c)))
        => LET r == LexPosPerm(self.U, self.c)
               cnt == CountPerm(self.U, Len(self.c))
           IN /\ (r < cnt - 1
                    => /\ IsObject(ret)
                       /\ ret.cls = "Permutation"
                       /\ ret.U = self.U
                       /\ Len(ret.c) = Len(self.c)
                       /\ LexPosPerm(ret.U, ret.c) = r + 1)
              /\ (ret = None) <=> (r = cnt - 1)

\* C9: for two Permutation objects over the same universal set and of the same
\* length, p == q is True if and only if their tuples are identical.
C9_PermutationEqIffSameTuple ==
    (op = "==" /\ self.cls = "Permutation" /\ other.cls = "Permutation"
        /\ self.U = other.U /\ Len(self.c) = Len(other.c))
        => (ret = PyBool(TRUE)) <=> (self.c = other.c)

\* C10: comparison guard.  Each of ==, < and > with a Combination or
\* Permutation on the left raises NotImplementedError when the operands are
\* not of the same class, or their universal sets differ, or their payload
\* sizes differ, and otherwise returns that comparison of the two ranks.
SameShape(a, b) == b.cls = a.cls /\ b.U = a.U /\ len(b) = len(a)

RankComparison(cmp, a, b) ==
    IF cmp = "==" THEN rank(a) = rank(b)
    ELSE IF cmp = "<" THEN rank(a) < rank(b)
    ELSE rank(a) > rank(b)

C10_ComparisonGuard ==
    op \in CmpOperators
        => IF SameShape(self, other)
           THEN ret = PyBool(RankComparison(op, self, other))
           ELSE ret = Raise("NotImplementedError")

C10_Witness ==
    /\ op = ">"
    /\ self.cls = "Combination"
    /\ other.cls = "Combination"
    /\ self.U = 1..3
    /\ other.U = 1..3
    /\ self.c = {1}
    /\ other.c = {1, 2}
    /\ ret = Raise("NotImplementedError")

\* C11: unrank_multipermutation(U, k, index) is base-n digit extraction over
\* the sorted alphabet: None if and only if index >= n^k, and otherwise a
\* k-tuple whose i-th element (0-based) is sorted(U)[(index div n^(k-1-i)) mod n].
Power(b, e) == IF e = 0 THEN 1 ELSE b ^ e

C11_UnrankMultipermutationIsDigitExtraction ==
    op = "unrank_multipermutation"
        => LET n == Cardinality(args.U)
               k == args.k
           IN /\ (ret = None) <=> (args.index >= Power(n, k))
              /\ (args.index < Power(n, k)
                    => /\ IsObject(ret)
                       /\ ret.cls = "Multipermutation"
                       /\ Len(ret.c) = k
                       /\ \A i \in 0..(k - 1) :
                            ret.c[i + 1] =
                              sorted(args.U)[((args.index \div Power(n, k - 1 - i)) % n) + 1])

C11_Witness ==
    /\ op = "unrank_multipermutation"
    /\ args.U = {1, 2, 4}
    /\ args.k = 3
    /\ args.index = 21
    /\ IsObject(ret)
    /\ ret.c = <<4, 2, 1>>

\* C12: multi-permutation round-trip in both directions.  For every U, k and
\* 0 <= i < |U|^k, unrank_multipermutation(U, k, i).rank() = i; and for every
\* tuple t over U, unranking the rank of Multipermutation(U, t) with the same
\* U and size gives a Multipermutation whose tuple is t.
C12_MultipermutationRoundTrip ==
    /\ (op = "rank" /\ args.by = "unrank_multipermutation")
          => ret = PyInt(args.index)
    /\ (op = "unrank_rank" /\ args.by = "Multipermutation")
          => /\ IsObject(ret)
             /\ ret.cls = "Multipermutation"
             /\ ret.c = args.c

C12_Witness ==
    /\ op = "unrank_rank"
    /\ args.by = "Multipermutation"
    /\ args.U = {1, 2, 3}
    /\ args.c = <<3, 1, 3>>
    /\ IsObject(ret)
    /\ ret.c = <<3, 1, 3>>

\* the non-decreasing k-tuples over U whose items are >= lo: the k-multisets
RECURSIVE NonDecreasingFrom(_, _, _)
NonDecreasingFrom(U, k, lo) ==
    IF k = 0 THEN {<< >>}
    ELSE UNION {{<<x>> \o t : t \in NonDecreasingFrom(U, k - 1, x)} :
                    x \in {y \in U : y >= lo}}

MultiSets(U, k) == NonDecreasingFrom(U, k, 0)
CountMulti(U, k) == Cardinality(MultiSets(U, k))
IsNonDecreasing(t) == \A i \in 1..(Len(t) - 1) : t[i] <= t[i + 1]

\* C13: multi-combination boundary.  unrank_multicombination(U, k, rank)
\* returns None for every rank >= C(n+k-1, k), that rank included, and an
\* object for rank = C(n+k-1, k) - 1.
C13_UnrankMulticombinationBoundary ==
    op = "unrank_multicombination"
        => /\ (args.index >= CountMulti(args.U, args.k) => ret = None)
           /\ (args.index = CountMulti(args.U, args.k) - 1 => IsObject(ret))

\* C14: multi-combination decode shape.  For 0 <= rank < C(n+k-1, k),
\* unrank_multicombination(U, k, rank) is a MultiCombination whose tuple has
\* exactly k elements, all of U, in non-decreasing order.
C14_UnrankMulticombinationShape ==
    (op = "unrank_multicombination" /\ args.index < CountMulti(args.U, args.k))
        => /\ IsObject(ret)
           /\ ret.cls = "MultiCombination"
           /\ Len(ret.c) = args.k
           /\ Range(ret.c) \subseteq args.U
           /\ IsNonDecreasing(ret.c)

\* C15: MultiCombination.rank() is a bijection onto the valid range.  The
\* ranks of the non-decreasing k-tuples over U are pairwise distinct, lie in
\* [0, C(n+k-1, k) - 1], and increase with the lexicographic order.
C15_MultiCombinationRankBijection ==
    (op = "rank" /\ args.by = "MultiCombination" /\ IsNonDecreasing(self.c))
        => LET U == Range(self.U)
               k == Len(self.c)
               rankOf(t) == MultiCombination_rank(Object("MultiCombination", self.U, t))
           IN /\ ret.tag = "int"
              /\ ret.val >= 0
              /\ ret.val <= CountMulti(U, k) - 1
              /\ \A t \in MultiSets(U, k) :
                    /\ (t # self.c => rankOf(t) # ret.val)
                    /\ (LexLess(t, self.c) <=> rankOf(t) < ret.val)

\* C16: composition decode validity.  For n >= k >= 1 and
\* 0 <= index < C(n-1, k-1), unrank_sized_integer_composition(n, k, index)
\* returns a tuple of exactly k strictly positive integers whose sum is n.
C16_UnrankCompositionValid ==
    (op = "unrank_sized_integer_composition"
        /\ args.n >= args.k /\ args.k >= 1
        /\ args.index < Cardinality(Compositions(args.n, args.k)))
        => /\ IsObject(ret)
           /\ ret.cls = "SizedIntegerComposition"
           /\ Len(ret.c) = args.k
           /\ \A i \in 1..Len(ret.c) : ret.c[i] > 0
           /\ ret.c \in Compositions(args.n, args.k)

\* C17: composition round-trip.  For n >= k >= 1 and 0 <= index < C(n-1, k-1),
\* unrank_sized_integer_composition(n, k, index).rank() = index.
C17_CompositionRoundTrip ==
    (op = "rank" /\ args.by = "unrank_sized_integer_composition"
        /\ args.n >= args.k /\ args.k >= 1
        /\ args.index < Cardinality(Compositions(args.n, args.k)))
        => ret = PyInt(args.index)

\* the non-decreasing k-tuples of integers >= l whose sum is n: the ways to
\* write n as an unordered sum of exactly k parts each >= l
RECURSIVE Partitions(_, _, _)
Partitions(n, k, l) ==
    IF k = 0 THEN (IF n = 0 THEN {<< >>} ELSE {})
    ELSE UNION {{<<p>> \o t : t \in Partitions(n - p, k - 1, p)} : p \in l..n}

\* C18: part(n, k, l) equals the number of ways to write n as an unordered sum
\* of exactly k positive integer parts each >= l, for every n >= 0, k >= 1 and
\* l >= 1.
C18_PartCountsRestrictedPartitions ==
    (op = "part" /\ args.n >= 0 /\ args.k >= 1 /\ args.l >= 1)
        => ret = PyInt(Cardinality(Partitions(args.n, args.k, args.l)))

\* C19: partition decode validity.  For n >= k >= 1 and
\* 0 <= index < part(n, k, 1), unrank_sized_integer_partition(n, k, index)
\* returns a SizedIntegerPartition that holds exactly k positive integer parts
\* whose sum is n.
C19_UnrankPartitionValid ==
    (op = "unrank_sized_integer_partition"
        /\ args.n >= args.k /\ args.k >= 1
        /\ args.index < part(args.n, args.k, 1))
        => /\ IsObject(ret)
           /\ ret.cls = "SizedIntegerPartition"
           /\ Cardinality(ret.c) = args.k
           /\ \A p \in ret.c : p > 0
           /\ ret.sum = args.n

\* C20: partition round-trip.  For n >= k >= 1 and 0 <= index < part(n, k, 1),
\* unrank_sized_integer_partition(n, k, index).rank() = index, and no other
\* index of that range decodes to the same partition.
C20_PartitionRoundTrip ==
    (op = "rank" /\ args.by = "unrank_sized_integer_partition"
        /\ args.n >= args.k /\ args.k >= 1
        /\ args.index < part(args.n, args.k, 1))
        => /\ ret = PyInt(args.index)
           /\ \A j \in 0..(part(args.n, args.k, 1) - 1) :
                j # args.index
                    => unrank_sized_integer_partition(args.n, args.k, j) # self

\* C21: CombinationIterator(U, k, r0) with 0 <= r0 < C(n, k): the i-th next()
\* call returns the Combination of rank r0 + i - 1 while that rank is below
\* C(n, k), and every later call raises StopIteration.
C21_CombinationIteratorSequence ==
    (op = "next" /\ self.cls = "CombinationIterator"
        /\ args.index < CountComb(args.U, args.k)
        /\ self.nexts < MaxNexts)
        => IF args.index + self.nexts - 1 < CountComb(args.U, args.k)
           THEN /\ IsObject(ret)
                /\ ret.cls = "Combination"
                /\ ret.U = args.U
                /\ ret.c \in KSubsets(args.U, args.k)
                /\ LexPosComb(args.U, ret.c) = args.index + self.nexts - 1
           ELSE ret = Raise("StopIteration")

C21_Witness ==
    /\ op = "next"
    /\ self.cls = "CombinationIterator"
    /\ args.U = 1..4
    /\ args.k = 2
    /\ args.index = 1
    /\ self.nexts = 5
    /\ IsObject(ret)
    /\ ret.c = {3, 4}
    /\ self.cursor = None

\* C22: PermuationIterator(U, k, r0) with 0 <= r0 < P(n, k): the i-th next()
\* call returns the Permutation at lexicographic position r0 + i - 1 while
\* that position is below P(n, k), and every later call raises StopIteration.
C22_PermutationIteratorSequence ==
    (op = "next" /\ self.cls = "PermuationIterator"
        /\ args.index < CountPerm(args.U, args.k)
        /\ self.nexts < MaxNexts)
        => IF args.index + self.nexts - 1 < CountPerm(args.U, args.k)
           THEN /\ IsObject(ret)
                /\ ret.cls = "Permutation"
                /\ ret.U = args.U
                /\ ret.c \in KPerms(args.U, args.k)
                /\ LexPosPerm(args.U, ret.c) = args.index + self.nexts - 1
           ELSE ret = Raise("StopIteration")

\* C23: Exhausted is absorbing for every iterator class.  Once a next() call
\* has raised StopIteration, the next call on the same iterator raises
\* StopIteration too and the cursor stays None.
C23_ExhaustedIsAbsorbing ==
    [][(op = "next" /\ ret = Raise("StopIteration") /\ op' = "next")
          => /\ ret' = Raise("StopIteration")
             /\ self'.cursor = None
             /\ self.cursor = None]_vars

C23_Witness ==
    /\ op = "next"
    /\ self.cls = "MultiCombinationIterator"
    /\ args.U = {1, 2}
    /\ args.k = 2
    /\ args.index = 4
    /\ self.nexts = 3
    /\ self.cursor = None
    /\ ret = Raise("StopIteration")

\* the number of objects of the codec an iterator class is named after, for
\* the constructor arguments a
ValidCount(cls, a) ==
    IF cls = "CombinationIterator" THEN CountComb(a.U, a.k)
    ELSE IF cls = "PermuationIterator" THEN CountPerm(a.U, a.k)
    ELSE IF cls = "SizedIntegerCompositionIterator"
         THEN Cardinality(Compositions(a.n, a.k))
    ELSE IF cls = "MultiPermuationIterator" THEN Power(Cardinality(a.U), a.k)
    ELSE CountMulti(a.U, a.k)

\* C24: an iterator of any of the five classes constructed with an
\* initial_index at or beyond the valid count of its codec is exhausted from
\* the start: every next() raises StopIteration and returns no object.
C24_OutOfRangeStartIsExhausted ==
    (op = "next" /\ IsIterator(self)
        /\ args.index >= ValidCount(self.cls, args))
        => ret = Raise("StopIteration")

\* C25: iteration terminates.  An iterator of any of the five classes started
\* at initial_index 0 returns at most count objects before it is exhausted:
\* a next() call that returns an object is at most the count-th call.
C25_IterationReturnsAtMostCount ==
    (op = "next" /\ IsIterator(self) /\ args.index = 0 /\ IsObject(ret))
        => self.nexts <= ValidCount(self.cls, args)

\* the three unrank functions of the empty-size edge case
EmptySizeUnranks ==
    {"unrank_combination", "unrank_permutation", "unrank_multipermutation"}

\* the empty selection over U, as the class of each unrank function holds it
EmptySelection(f, U) ==
    IF f = "unrank_combination" THEN Object("Combination", U, {})
    ELSE IF f = "unrank_permutation" THEN Object("Permutation", U, << >>)
    ELSE Object("Multipermutation", sorted(U), << >>)

\* C26: empty-size edge case.  For every universal set U, the empty one
\* included, unrank_combination(U, 0, 0), unrank_permutation(U, 0, 0) and
\* unrank_multipermutation(U, 0, 0) return the empty selection, whose rank is
\* 0 and whose successor is None; every rank >= 1 with k = 0 returns None.
C26_EmptySizeEdgeCase ==
    /\ (op \in EmptySizeUnranks /\ args.k = 0)
          => IF args.index = 0 THEN ret = EmptySelection(op, args.U)
             ELSE ret = None
    /\ (op = "rank" /\ args.by \in EmptySizeUnranks /\ args.k = 0)
          => ret = PyInt(0)
    /\ (op = "successor" /\ args.by \in EmptySizeUnranks /\ args.k = 0)
          => ret = None

C26_Witness ==
    /\ op = "successor"
    /\ args.by = "unrank_multipermutation"
    /\ args.U = {}
    /\ args.k = 0
    /\ args.index = 0
    /\ self = EmptySelection("unrank_multipermutation", {})
    /\ ret = None

\* C27: successor preserves the shape.  For an object o of any of the six
\* codec classes, a successor that is not None is an object of the class of
\* o, over the same universal set (or with the same sum), and of the same size.
C27_SuccessorPreservesShape ==
    (op = "successor" /\ IsObject(self) /\ ret # None)
        => /\ IsObject(ret)
           /\ ret.cls = self.cls
           /\ IF self.cls \in {"SizedIntegerComposition", "SizedIntegerPartition"}
              THEN ret.sum = self.sum
              ELSE ret.U = self.U
           /\ payload_len(ret) = payload_len(self)

\* zero-based position of the tuple c among the Len(c)-tuples of positive
\* integers with the sum of c, in lexicographic order
LexPosComposition(c) ==
    Cardinality({t \in Compositions(sum(c), Len(c)) : LexLess(t, c)})

\* C28: SizedIntegerComposition.rank() is the lexicographic position.  For
\* n >= k >= 1 the rank of a k-tuple of positive integers summing to n is the
\* number of such tuples that precede it lexicographically, so the ranks are
\* exactly 0..C(n-1, k-1)-1 and they order the tuples as the tuples compare.
C28_CompositionRankIsLexPosition ==
    (op = "rank" /\ args.by = "SizedIntegerComposition"
        /\ args.n >= args.k /\ args.k >= 1)
        => /\ ret = PyInt(LexPosComposition(self.c))
           /\ ret.val < comb(args.n - 1, args.k - 1)

C28_Witness ==
    /\ op = "rank"
    /\ args.by = "SizedIntegerComposition"
    /\ self.c = <<2, 1, 3>>
    /\ ret = PyInt(4)

\* C29: MultiPermuationIterator(U, k, r0) with 0 <= r0 < |U|^k: the i-th
\* next() call returns the Multipermutation of rank r0 + i - 1 (the k-tuple
\* over U, repeats allowed, at that lexicographic position) while that rank is
\* below |U|^k, and every later call raises StopIteration.
C29_MultiPermutationIteratorSequence ==
    (op = "next" /\ self.cls = "MultiPermuationIterator"
        /\ args.index < Power(Cardinality(args.U), args.k)
        /\ self.nexts < MaxNexts)
        => IF args.index + self.nexts - 1 < Power(Cardinality(args.U), args.k)
           THEN /\ IsObject(ret)
                /\ ret.cls = "Multipermutation"
                /\ ret.U = sorted(args.U)
                /\ ret.c \in Tuples(args.U, args.k)
                /\ Cardinality({t \in Tuples(args.U, args.k) : LexLess(t, ret.c)})
                       = args.index + self.nexts - 1
           ELSE ret = Raise("StopIteration")

\* C30: the range bound of unrank_sized_integer_partition is the true count.
\* For n >= 0 and k >= 1, part(n, k, 1) is the number of partitions of n into
\* exactly k positive parts, and unrank_sized_integer_partition(n, k, index)
\* returns None iff index is at or beyond that number.
C30_PartitionBoundIsTrueCount ==
    /\ (op = "part" /\ args.n >= 0 /\ args.k >= 1 /\ args.l = 1)
          => ret = PyInt(Cardinality(Partitions(args.n, args.k, 1)))
    /\ (op = "unrank_sized_integer_partition" /\ args.n >= 0 /\ args.k >= 1)
          => ((ret = None)
                <=> (args.index >= Cardinality(Partitions(args.n, args.k, 1))))

C30_Witness ==
    /\ op = "unrank_sized_integer_partition"
    /\ args.n = 7
    /\ args.k = 3
    /\ args.index = 4
    /\ ret = None

====
